---- MODULE Spec2Model ----
(***************************************************************************)
(* Model of cc-api.js: the static port pool of SSHServer, the SSHServer    *)
(* endpoints (reservePort / startServer / stopServer with their docker     *)
(* retry loops) and the CCExperiment lifecycle (startExperiment,           *)
(* fetchCurrentStatus, cancelExperiment and the timeout timer).            *)
(*                                                                         *)
(* JavaScript runs one callback at a time, so one action is one            *)
(* synchronous run of code: a public call up to its first suspension, a    *)
(* timer callback, an exec callback or an HTTP callback, each together     *)
(* with the promise continuations it resumes.                              *)
(***************************************************************************)
EXTENDS Integers, Sequences, FiniteSets, TLC

(* ------------------------------ bounds --------------------------------- *)

\* ports handed to setPortRange are 1..MaxPort (valid TCP ports are >= 1)
MaxPort == 2

\* number of SSHServer instances
NumEndpoints == 2

\* direct stopServer calls callers make on the endpoints, in total
MaxStopCalls == 2

\* fetchCurrentStatus / cancelExperiment calls a caller makes on the experiment
MaxCalls == 2

\* instance fields of SSHServer, scaled down from 3 / 3 / 3600000 / 30000
MaxStartRetries == 1
MaxStopRetries == 1
ReservePortMaxTime == 1
ReservePortTimeout == 1

(* ------------------------------ values --------------------------------- *)

\* JavaScript undefined in a number-valued field
Undef == -1

Ports == 1..MaxPort
Endpoints == 1..NumEndpoints

\* the experiment of the model, and the value of an unset sshServer field
Experiments == {"x1"}
NoServer == 0

VARIABLES
    availablePorts,   \* SSHServer.availablePorts
    portRange,        \* arguments of the latest setPortRange call
    reservedPort,     \* this.reservedPort of each endpoint
    reservePortFn,    \* whether endpoint.reservePort is still the method
    containerId,      \* this.containerId of each endpoint
    acq,              \* the reservePort call in flight on each endpoint
    start,            \* the startServer call in flight on each endpoint
    stops,            \* the stopServer calls made on each endpoint, in order
    sshServer,        \* this.sshServer of each experiment
    timeout,          \* this.timeout
    currentStatus,    \* this.currentStatus
    experimentId,     \* this.experimentId
    batchId,          \* this.batchId
    debugInfo,        \* this.debugInfo
    timeoutFunction,  \* the timer behind this.timeoutFunction
    startx,           \* the startExperiment call of each experiment
    calls             \* fetchCurrentStatus / cancelExperiment calls, in order

serverVars == <<availablePorts, portRange, reservedPort, reservePortFn,
                containerId, acq, start, stops>>
expVars == <<sshServer, timeout, currentStatus, experimentId, batchId,
             debugInfo, timeoutFunction, startx, calls>>
vars == <<availablePorts, portRange, reservedPort, reservePortFn,
          containerId, acq, start, stops, sshServer, timeout, currentStatus,
          experimentId, batchId, debugInfo, timeoutFunction, startx, calls>>

(* --------------------------- SSHServer: pool --------------------------- *)

\* the for loop of setPortRange: push i for i = firstPort .. lastPort
RECURSIVE PushRange(_, _, _)
PushRange(ports, i, lastPort) ==
    IF i <= lastPort THEN PushRange(Append(ports, i), i + 1, lastPort)
                     ELSE ports

\* static setPortRange(firstPort, lastPort): the new availablePorts
PortRangeMissingGuard(ports, firstPort, lastPort) ==
    PushRange(<<>>, firstPort, lastPort)

PortRangeOffByOne(ports, firstPort, lastPort) ==
    IF firstPort > lastPort THEN ports
                            ELSE PushRange(<<>>, firstPort, lastPort - 1)

PortRange(ports, firstPort, lastPort) ==
    IF firstPort > lastPort THEN ports
                            ELSE PushRange(<<>>, firstPort, lastPort)

SetPortRange(firstPort, lastPort) ==
    /\ availablePorts' = PortRange(availablePorts, firstPort, lastPort)
    /\ portRange' = <<firstPort, lastPort>>
    /\ UNCHANGED <<reservedPort, reservePortFn, containerId, acq, start, stops>>
    /\ UNCHANGED expVars

\* Array.prototype.shift: the removed head (undefined when empty) and the rest
ShiftFromTail(ports) ==
    IF ports = <<>> THEN [value |-> Undef, rest |-> ports]
    ELSE [value |-> ports[Len(ports)], rest |-> SubSeq(ports, 1, Len(ports) - 1)]

Shift(ports) ==
    IF ports = <<>> THEN [value |-> Undef, rest |-> ports]
                    ELSE [value |-> Head(ports), rest |-> Tail(ports)]

\* JavaScript truthiness of a port-valued field: undefined and 0 are falsy
Truthy(port) == port # Undef /\ port # 0

\* the runner closure of fetchAndWaitForPort, run for the call a of endpoint e
RunnerDeadlineFirst(e, a) ==
    LET s == Shift(availablePorts) IN
    IF a.retries * ReservePortTimeout > ReservePortMaxTime
    THEN /\ availablePorts' = availablePorts
         /\ acq' = [acq EXCEPT ![e] = [pc |-> "rejected", retries |-> 0, port |-> Undef]]
    ELSE /\ availablePorts' = s.rest
         /\ acq' = [acq EXCEPT ![e] =
               IF s.value # Undef
               THEN [pc |-> "resolved", retries |-> 0, port |-> s.value]
               ELSE [pc |-> "waiting", retries |-> a.retries + 1, port |-> Undef]]

RunnerFailsEarly(e, a) ==
    LET s == Shift(availablePorts) IN
    /\ availablePorts' = s.rest
    /\ acq' = [acq EXCEPT ![e] =
          IF s.value # Undef
          THEN [pc |-> "resolved", retries |-> 0, port |-> s.value]
          ELSE IF a.retries * ReservePortTimeout >= ReservePortMaxTime
          THEN [pc |-> "rejected", retries |-> 0, port |-> Undef]
          ELSE [pc |-> "waiting", retries |-> a.retries + 1, port |-> Undef]]

Runner(e, a) ==
    LET s == Shift(availablePorts) IN
    /\ availablePorts' = s.rest
    /\ acq' = [acq EXCEPT ![e] =
          IF s.value # Undef
          THEN [pc |-> "resolved", retries |-> 0, port |-> s.value]
          ELSE IF a.retries * ReservePortTimeout > ReservePortMaxTime
          THEN [pc |-> "rejected", retries |-> 0, port |-> Undef]
          ELSE [pc |-> "waiting", retries |-> a.retries + 1, port |-> Undef]]

\* endpoint.reservePort(): the call runs the runner once, synchronously
ReservePort(e) ==
    /\ reservePortFn[e]
    /\ acq[e].pc = "idle"
    /\ Runner(e, [pc |-> "idle", retries |-> 0, port |-> Undef])
    /\ UNCHANGED <<portRange, reservedPort, reservePortFn, containerId, start, stops>>
    /\ UNCHANGED expVars

\* setTimeout(runner, this.reservePortTimeout) fires
RunnerTimeout(e) ==
    /\ acq[e].pc = "waiting"
    /\ Runner(e, acq[e])
    /\ UNCHANGED <<portRange, reservedPort, reservePortFn, containerId, start, stops>>
    /\ UNCHANGED expVars

\* reservePort resumes after its await: the assignment, or the rejection
ReservePortResume(e) ==
    /\ acq[e].pc \in {"resolved", "rejected"}
    /\ reservedPort' = IF acq[e].pc = "resolved"
                       THEN [reservedPort EXCEPT ![e] = acq[e].port]
                       ELSE reservedPort
    /\ acq' = [acq EXCEPT ![e] = [pc |-> "idle", retries |-> 0, port |-> Undef]]
    /\ UNCHANGED <<availablePorts, portRange, reservePortFn, containerId, start, stops>>
    /\ UNCHANGED expVars

\* freePort(): the pool and the reservePort property afterwards
FreePort(e, ports, fn) ==
    IF Truthy(reservedPort[e])
    THEN [ports |-> Append(ports, reservedPort[e]), fn |-> [fn EXCEPT ![e] = FALSE]]
    ELSE [ports |-> ports, fn |-> fn]

(* ------------------------ SSHServer: docker --------------------------- *)

\* the exec callback of runDockerCommand: retry, reject or resolve
RunDockerCommandNoRetry(retries, maxRetries, error) ==
    IF error
    THEN [outcome |-> "reject", retries |-> retries + 1]
    ELSE [outcome |-> "resolve", retries |-> retries]

RunDockerCommand(retries, maxRetries, error) ==
    IF error
    THEN IF retries < maxRetries
         THEN [outcome |-> "retry", retries |-> retries + 1]
         ELSE [outcome |-> "reject", retries |-> retries + 1]
    ELSE [outcome |-> "resolve", retries |-> retries]

\* startServer() up to its await: the precondition, then 'docker run' is issued
StartServerCallNoCheck(e, caller) ==
    [pc |-> "exec", retries |-> 0, port |-> reservedPort[e], caller |-> caller]

StartServerCall(e, caller) ==
    IF reservedPort[e] = Undef
    THEN [pc |-> "failed", retries |-> 0, port |-> Undef, caller |-> caller]
    ELSE [pc |-> "exec", retries |-> 0, port |-> reservedPort[e], caller |-> caller]

\* startServer() after an exec callback of 'docker run'
StartServerStep(s, error) ==
    LET r == RunDockerCommand(s.retries, MaxStartRetries, error) IN
    IF r.outcome = "retry" THEN [s EXCEPT !.retries = r.retries]
    ELSE IF r.outcome = "reject" THEN [s EXCEPT !.retries = r.retries, !.pc = "failed"]
    ELSE [s EXCEPT !.pc = "done"]

\* stopServer() up to its first await: 'docker stop' is issued
StopServerCall(e, by) ==
    Append(stops[e], [by |-> by, cmd |-> "stop", retries |-> 0, pc |-> "exec", ok |-> {}])

\* stopServer() after an exec callback: the call afterwards, and whether
\* freePort() ran
StopServerStepFreeAlways(s, error) ==
    LET r == RunDockerCommand(s.retries, MaxStopRetries, error) IN
    IF r.outcome = "retry"
    THEN [call |-> [s EXCEPT !.retries = r.retries], free |-> FALSE]
    ELSE IF r.outcome = "reject"
    THEN [call |-> [s EXCEPT !.retries = r.retries, !.pc = "failed"], free |-> TRUE]
    ELSE IF s.cmd = "stop"
    THEN [call |-> [s EXCEPT !.cmd = "rm", !.retries = 0], free |-> FALSE]
    ELSE [call |-> [s EXCEPT !.pc = "done"], free |-> TRUE]

StopServerStep(s, error) ==
    LET r == RunDockerCommand(s.retries, MaxStopRetries, error) IN
    IF r.outcome = "retry"
    THEN [call |-> [s EXCEPT !.retries = r.retries], free |-> FALSE]
    ELSE IF r.outcome = "reject"
    THEN [call |-> [s EXCEPT !.retries = r.retries, !.pc = "failed"], free |-> FALSE]
    ELSE IF s.cmd = "stop"
    THEN [call |-> [s EXCEPT !.cmd = "rm", !.retries = 0], free |-> FALSE]
    ELSE [call |-> [s EXCEPT !.pc = "done"], free |-> TRUE]

(* ------------------------------ CCExperiment --------------------------- *)

UndefStr == "undefined"
AgencyStates == {"processing", "succeeded", "failed", "cancelled"}
Terminal == {"succeeded", "failed", "cancelled"}
DebugInfos == {"d1", "d2"}
HistoryEntries == {[state |-> "processing", debugInfo |-> UndefStr]}
                      \cup [state : {"failed"}, debugInfo : DebugInfos]
Histories == {<<>>} \cup {<<h>> : h \in HistoryEntries}
                    \cup {<<g, h>> : g, h \in HistoryEntries}

HasServer(x) == sshServer[x] # NoServer

\* startTimeoutTimer()
StartTimeoutTimerAlways(x) == "armed"

StartTimeoutTimer(x) ==
    IF timeout[x] > 0 THEN "armed" ELSE timeoutFunction[x]

\* clearTimeoutTimer(): clearTimeout only disarms a timer that is still pending
ClearTimeoutTimerNoOp(x) == timeoutFunction[x]

ClearTimeoutTimer(x) ==
    IF timeoutFunction[x] = "armed" THEN "cleared" ELSE timeoutFunction[x]

\* the for loop of fetchCurrentStatus over json_response.history
RECURSIVE ScanHistory(_, _)
ScanHistory(history, info) ==
    IF history = <<>> THEN info
    ELSE IF Head(history).state = "failed" THEN Head(history).debugInfo
    ELSE ScanHistory(Tail(history), info)

\* the stops after an experiment handler ran "if (this.sshServer) stopServer()"
StopAttachedNever(x, by) == stops

StopAttached(x, by) ==
    IF HasServer(x)
    THEN [stops EXCEPT ![sshServer[x]] = StopServerCall(sshServer[x], by)]
    ELSE stops

\* startExperiment() resumes after "await this.sshServer.startServer()":
\* the request is sent, or the rejection of startServer is passed on
StartExperimentResumeAlways(x, started) ==
    [pc |-> "request", err |-> "none"]

StartExperimentResume(x, started) ==
    IF started THEN [pc |-> "request", err |-> "none"]
               ELSE [pc |-> "failed", err |-> "server"]

\* setSSHServer(sshServer), called once, before the experiment is used
SetSSHServer(x, e) ==
    /\ startx[x].pc = "idle"
    /\ calls[x] = <<>>
    /\ sshServer[x] = NoServer
    /\ sshServer' = [sshServer EXCEPT ![x] = e]
    /\ UNCHANGED <<timeout, currentStatus, experimentId, batchId, debugInfo,
                   timeoutFunction, startx, calls>>
    /\ UNCHANGED serverVars

\* startExperiment(): up to the await of startServer, or to the request
StartExperiment(x) ==
    /\ startx[x].pc = "idle"
    /\ IF HasServer(x)
       THEN LET e == sshServer[x]
                s == StartServerCall(e, x) IN
            /\ start[e].pc # "exec"
            /\ start' = [start EXCEPT ![e] = s]
            /\ startx' = [startx EXCEPT ![x] =
                  IF s.pc = "failed" THEN StartExperimentResume(x, FALSE)
                                     ELSE [pc |-> "server", err |-> "none"]]
       ELSE /\ startx' = [startx EXCEPT ![x] = StartExperimentResume(x, TRUE)]
            /\ UNCHANGED start
    /\ UNCHANGED <<availablePorts, portRange, reservedPort, reservePortFn,
                   containerId, acq, stops>>
    /\ UNCHANGED <<sshServer, timeout, currentStatus, experimentId, batchId,
                   debugInfo, timeoutFunction, calls>>

\* the response to the POST of startExperiment, or its "error" event
StartResponses == {"id", "noId", "parse", "error"}

\* the timer after the 'end' handler of startExperiment: startTimeoutTimer()
\* is called when the response carries an experimentId
ArmOnAnyResponse(x, resp) ==
    IF resp \in {"id", "noId"}
    THEN [timeoutFunction EXCEPT ![x] = StartTimeoutTimer(x)]
    ELSE timeoutFunction

ArmOnResponse(x, resp) ==
    IF resp = "id"
    THEN [timeoutFunction EXCEPT ![x] = StartTimeoutTimer(x)]
    ELSE timeoutFunction

StartExperimentResponse(x, resp) ==
    /\ startx[x].pc = "request"
    /\ experimentId' = IF resp = "id" THEN [experimentId EXCEPT ![x] = "exp"]
                                      ELSE experimentId
    /\ timeoutFunction' = ArmOnResponse(x, resp)
    /\ stops' = IF resp = "error" THEN StopAttached(x, "start") ELSE stops
    /\ startx' = [startx EXCEPT ![x] =
          IF resp = "id" THEN [pc |-> "done", err |-> "none"]
          ELSE IF resp = "noId" THEN [pc |-> "failed", err |-> "noId"]
          ELSE IF resp = "parse" THEN [pc |-> "failed", err |-> "parse"]
          ELSE [pc |-> "failed", err |-> "transport"]]
    /\ UNCHANGED <<availablePorts, portRange, reservedPort, reservePortFn,
                   containerId, acq, start>>
    /\ UNCHANGED <<sshServer, timeout, currentStatus, batchId, debugInfo, calls>>

\* fetchCurrentStatus() / cancelExperiment() up to the first request: the
\* batch list query when batchId is unknown, else the GET / DELETE
NewCallNoCache(x, op, by) ==
    [op |-> op, by |-> by, pc |-> "batch", result |-> UndefStr]

NewCallNoResolve(x, op, by) ==
    [op |-> op, by |-> by, pc |-> "request", result |-> UndefStr]

NewCall(x, op, by) ==
    [op |-> op, by |-> by,
     pc |-> IF batchId[x] = UndefStr THEN "batch" ELSE "request",
     result |-> UndefStr]

FetchCurrentStatus(x) ==
    /\ Len(calls[x]) < MaxCalls
    /\ calls' = [calls EXCEPT ![x] = Append(@, NewCall(x, "fetch", "user"))]
    /\ UNCHANGED <<sshServer, timeout, currentStatus, experimentId, batchId,
                   debugInfo, timeoutFunction, startx>>
    /\ UNCHANGED serverVars

\* cancelExperiment() called by by: with a known batchId it disarms the timer
CancelCall(x, by) ==
    /\ calls' = [calls EXCEPT ![x] = Append(@, NewCall(x, "cancel", by))]
    /\ UNCHANGED <<sshServer, timeout, currentStatus, experimentId, batchId,
                   debugInfo, startx>>
    /\ UNCHANGED serverVars

CancelExperiment(x) ==
    /\ Len(calls[x]) < MaxCalls
    /\ timeoutFunction' = IF batchId[x] = UndefStr THEN timeoutFunction
                          ELSE [timeoutFunction EXCEPT ![x] = ClearTimeoutTimer(x)]
    /\ CancelCall(x, "user")

\* the setTimeout callback of startTimeoutTimer: this.cancelExperiment()
TimeoutFires(x) ==
    /\ timeoutFunction[x] = "armed"
    /\ timeoutFunction' = [timeoutFunction EXCEPT ![x] = "fired"]
    /\ CancelCall(x, "timer")

\* call i of x gives up in the catch around "await this.getBatchId()":
\* fetchCurrentStatus returns this.currentStatus, cancelExperiment false
GiveUpRejects(x, i) == [calls[x][i] EXCEPT !.pc = "failed"]

GiveUp(x, i) ==
    [calls[x][i] EXCEPT !.pc = "done",
                        !.result = IF calls[x][i].op = "fetch"
                                   THEN currentStatus[x] ELSE "false"]

\* the response to the batch list query of getBatchId, resuming call i; every
\* batch of the agency names its experiment, so a batch whose experimentId
\* equals this.experimentId is only found once that is set
GetBatchIdResponse(x, i, found) ==
    /\ i \in 1..Len(calls[x])
    /\ calls[x][i].pc = "batch"
    /\ found => experimentId[x] # UndefStr
    /\ IF found
       THEN /\ batchId' = [batchId EXCEPT ![x] = "batch"]
            /\ calls' = [calls EXCEPT ![x][i].pc = "request"]
            /\ timeoutFunction' =
                  IF calls[x][i].op = "cancel"
                  THEN [timeoutFunction EXCEPT ![x] = ClearTimeoutTimer(x)]
                  ELSE timeoutFunction
       ELSE /\ calls' = [calls EXCEPT ![x][i] = GiveUp(x, i)]
            /\ UNCHANGED <<batchId, timeoutFunction>>
    /\ UNCHANGED <<sshServer, timeout, currentStatus, experimentId, debugInfo, startx>>
    /\ UNCHANGED serverVars

\* this.currentStatus after the 'end' / 'error' handler of
\* fetchCurrentStatus: assigned once the response has been parsed
StatusAfterFetchUnparsed(x, resp) ==
    [currentStatus EXCEPT ![x] = IF resp \in AgencyStates THEN resp ELSE UndefStr]

StatusAfterFetch(x, resp) ==
    IF resp \in AgencyStates THEN [currentStatus EXCEPT ![x] = resp]
                             ELSE currentStatus

\* the response to the GET of fetchCurrentStatus: a batch with its state and
\* history, an unparseable body, or the "error" event
FetchResponse(x, i, resp, history) ==
    /\ i \in 1..Len(calls[x])
    /\ calls[x][i].op = "fetch"
    /\ calls[x][i].pc = "request"
    /\ currentStatus' = StatusAfterFetch(x, resp)
    /\ IF resp \in AgencyStates
       THEN /\ debugInfo' = IF resp = "failed"
                  THEN [debugInfo EXCEPT ![x] = ScanHistory(history, debugInfo[x])]
                  ELSE debugInfo
            /\ timeoutFunction' = IF resp \in {"succeeded", "failed"}
                  THEN [timeoutFunction EXCEPT ![x] = ClearTimeoutTimer(x)]
                  ELSE timeoutFunction
            /\ stops' = IF resp \in {"succeeded", "failed"}
                        THEN StopAttached(x, "fetch") ELSE stops
            /\ calls' = [calls EXCEPT ![x][i] = [@ EXCEPT !.pc = "done", !.result = resp]]
       ELSE /\ calls' = [calls EXCEPT ![x][i] = [@ EXCEPT !.pc = "failed"]]
            /\ UNCHANGED <<debugInfo, timeoutFunction, stops>>
    /\ UNCHANGED <<sshServer, timeout, experimentId, batchId, startx>>
    /\ UNCHANGED <<availablePorts, portRange, reservedPort, reservePortFn,
                   containerId, acq, start>>

\* what cancelExperiment resolves with: json_response.state == "cancelled"
CancelResultTruthy(resp) == "true"

CancelResult(resp) == IF resp = "cancelled" THEN "true" ELSE "false"

\* the stops after the 'end' handler of cancelExperiment: stopServer() is
\* called once the response has been parsed
CancelTeardownIfCancelled(x, resp) ==
    IF resp = "cancelled" THEN StopAttached(x, "cancel") ELSE stops

CancelTeardown(x, resp) ==
    IF resp \in AgencyStates THEN StopAttached(x, "cancel") ELSE stops

\* the response to the DELETE of cancelExperiment
CancelResponse(x, i, resp) ==
    /\ i \in 1..Len(calls[x])
    /\ calls[x][i].op = "cancel"
    /\ calls[x][i].pc = "request"
    /\ calls' = [calls EXCEPT ![x][i] =
          IF resp \in AgencyStates
          THEN [@ EXCEPT !.pc = "done", !.result = CancelResult(resp)]
          ELSE [@ EXCEPT !.pc = "failed"]]
    /\ stops' = CancelTeardown(x, resp)
    /\ UNCHANGED <<sshServer, timeout, currentStatus, experimentId, batchId,
                   debugInfo, timeoutFunction, startx>>
    /\ UNCHANGED <<availablePorts, portRange, reservedPort, reservePortFn,
                   containerId, acq, start>>

(* ------------------- SSHServer: calls and exec callbacks --------------- *)

\* endpoint.startServer() called directly
StartServer(e) ==
    /\ start[e].pc # "exec"
    /\ start' = [start EXCEPT ![e] = StartServerCall(e, "user")]
    /\ UNCHANGED <<availablePorts, portRange, reservedPort, reservePortFn,
                   containerId, acq, stops>>
    /\ UNCHANGED expVars

\* the exec callback of 'docker run'; a startExperiment awaiting it resumes
StartServerCallback(e, error) ==
    /\ start[e].pc = "exec"
    /\ LET s == StartServerStep(start[e], error) IN
       /\ start' = [start EXCEPT ![e] = s]
       /\ containerId' = IF s.pc = "done" THEN [containerId EXCEPT ![e] = s.port]
                                          ELSE containerId
       /\ startx' = IF s.caller \in Experiments /\ s.pc # "exec"
                    THEN [startx EXCEPT ![s.caller] =
                             StartExperimentResume(s.caller, s.pc = "done")]
                    ELSE startx
    /\ UNCHANGED <<availablePorts, portRange, reservedPort, reservePortFn, acq, stops>>
    /\ UNCHANGED <<sshServer, timeout, currentStatus, experimentId, batchId,
                   debugInfo, timeoutFunction, calls>>

\* endpoint.stopServer() called directly
StopCalls == UNION {{<<e, i>> : i \in 1..Len(stops[e])} : e \in Endpoints}

StopServer(e) ==
    /\ Cardinality(StopCalls) < MaxStopCalls
    /\ stops' = [stops EXCEPT ![e] = StopServerCall(e, "user")]
    /\ UNCHANGED <<availablePorts, portRange, reservedPort, reservePortFn,
                   containerId, acq, start>>
    /\ UNCHANGED expVars

\* the exec callback of 'docker stop' / 'docker rm' of the i-th stopServer call
StopServerCallback(e, i, error) ==
    /\ i \in 1..Len(stops[e])
    /\ stops[e][i].pc = "exec"
    /\ LET s == stops[e][i]
           r == StopServerStep(s, error)
           f == IF r.free THEN FreePort(e, availablePorts, reservePortFn)
                          ELSE [ports |-> availablePorts, fn |-> reservePortFn] IN
       /\ stops' = [stops EXCEPT ![e][i] =
             [r.call EXCEPT !.ok = IF error THEN s.ok ELSE s.ok \cup {s.cmd}]]
       /\ availablePorts' = f.ports
       /\ reservePortFn' = f.fn
    /\ UNCHANGED <<portRange, reservedPort, containerId, acq, start>>
    /\ UNCHANGED expVars

(* --------------------------- specifications ---------------------------- *)

NoCall == [pc |-> "idle", retries |-> 0, port |-> Undef]
NoStart == [pc |-> "idle", retries |-> 0, port |-> Undef, caller |-> "user"]

\* the state after loading the module and constructing the objects
Init ==
    /\ availablePorts = <<>>
    /\ portRange = <<Undef, Undef>>
    /\ reservedPort = [e \in Endpoints |-> Undef]
    /\ reservePortFn = [e \in Endpoints |-> TRUE]
    /\ containerId = [e \in Endpoints |-> Undef]
    /\ acq = [e \in Endpoints |-> NoCall]
    /\ start = [e \in Endpoints |-> NoStart]
    /\ stops = [e \in Endpoints |-> <<>>]
    /\ sshServer = [x \in Experiments |-> NoServer]
    /\ timeout = [x \in Experiments |-> 0]
    /\ currentStatus = [x \in Experiments |-> "unknown"]
    /\ experimentId = [x \in Experiments |-> UndefStr]
    /\ batchId = [x \in Experiments |-> UndefStr]
    /\ debugInfo = [x \in Experiments |-> UndefStr]
    /\ timeoutFunction = [x \in Experiments |-> UndefStr]
    /\ startx = [x \in Experiments |-> [pc |-> "idle", err |-> "none"]]
    /\ calls = [x \in Experiments |-> <<>>]

\* the state once a caller has configured the whole range
InitConfigured ==
    /\ availablePorts = PortRange(<<>>, 1, MaxPort)
    /\ portRange = <<1, MaxPort>>
    /\ reservedPort = [e \in Endpoints |-> Undef]
    /\ reservePortFn = [e \in Endpoints |-> TRUE]
    /\ containerId = [e \in Endpoints |-> Undef]
    /\ acq = [e \in Endpoints |-> NoCall]
    /\ start = [e \in Endpoints |-> NoStart]
    /\ stops = [e \in Endpoints |-> <<>>]
    /\ sshServer = [x \in Experiments |-> NoServer]
    /\ timeout = [x \in Experiments |-> 0]
    /\ currentStatus = [x \in Experiments |-> "unknown"]
    /\ experimentId = [x \in Experiments |-> UndefStr]
    /\ batchId = [x \in Experiments |-> UndefStr]
    /\ debugInfo = [x \in Experiments |-> UndefStr]
    /\ timeoutFunction = [x \in Experiments |-> UndefStr]
    /\ startx = [x \in Experiments |-> [pc |-> "idle", err |-> "none"]]
    /\ calls = [x \in Experiments |-> <<>>]

\* acquisition: reservePort calls, their polls and their resumptions
Acquire ==
    \/ \E e \in Endpoints : ReservePort(e)
    \/ \E e \in Endpoints : RunnerTimeout(e)
    \/ \E e \in Endpoints : ReservePortResume(e)

\* release: stopServer calls and the callbacks of their docker commands
Release ==
    \/ \E e \in Endpoints : StopServer(e)
    \/ \E e \in Endpoints, i \in 1..MaxStopCalls, error \in BOOLEAN :
          StopServerCallback(e, i, error)

\* the pool and the endpoints, driven directly by callers
Next ==
    \/ \E a, b \in Ports : SetPortRange(a, b)
    \/ Acquire
    \/ Release

Spec == Init /\ [][Next]_vars

\* the pool configured once, then only acquisitions and releases
NextFixedRange ==
    \/ Acquire
    \/ Release

SpecFixedRange == InitConfigured /\ [][NextFixedRange]_vars

\* the pool configured at any time, acquisitions, and no release
NextRange ==
    \/ \E a, b \in Ports : SetPortRange(a, b)
    \/ Acquire

SpecRange == Init /\ [][NextRange]_vars

\* endpoints started directly: reservePort and startServer calls in any order
NextStart ==
    \/ Acquire
    \/ \E e \in Endpoints : StartServer(e)
    \/ \E e \in Endpoints, error \in BOOLEAN : StartServerCallback(e, error)

SpecStart == InitConfigured /\ [][NextStart]_vars

\* endpoints stopped and then started again, on a pool configured once
NextRestart ==
    \/ Acquire
    \/ Release
    \/ \E e \in Endpoints : stops[e] # <<>> /\ StartServer(e)
    \/ \E e \in Endpoints, error \in BOOLEAN : StartServerCallback(e, error)

SpecRestart == InitConfigured /\ [][NextRestart]_vars

\* the same, where the event loop runs every pending poll timer
SpecRangeFair ==
    /\ SpecRange
    /\ \A e \in Endpoints : WF_vars(RunnerTimeout(e))

\* the state once the range is configured, the first endpoint has reserved
\* the first port and an experiment is constructed, with or without a timeout
InitExperiment ==
    /\ availablePorts = Tail(PortRange(<<>>, 1, MaxPort))
    /\ portRange = <<1, MaxPort>>
    /\ reservedPort = [e \in Endpoints |-> IF e = 1 THEN 1 ELSE Undef]
    /\ reservePortFn = [e \in Endpoints |-> TRUE]
    /\ containerId = [e \in Endpoints |-> Undef]
    /\ acq = [e \in Endpoints |-> NoCall]
    /\ start = [e \in Endpoints |-> NoStart]
    /\ stops = [e \in Endpoints |-> <<>>]
    /\ sshServer = [x \in Experiments |-> NoServer]
    /\ timeout \in [Experiments -> {0, 1}]
    /\ currentStatus = [x \in Experiments |-> "unknown"]
    /\ experimentId = [x \in Experiments |-> UndefStr]
    /\ batchId = [x \in Experiments |-> UndefStr]
    /\ debugInfo = [x \in Experiments |-> UndefStr]
    /\ timeoutFunction = [x \in Experiments |-> UndefStr]
    /\ startx = [x \in Experiments |-> [pc |-> "idle", err |-> "none"]]
    /\ calls = [x \in Experiments |-> <<>>]

\* callbacks of the docker commands issued for the experiments' endpoints
DockerStart ==
    \E e \in Endpoints, error \in BOOLEAN : StartServerCallback(e, error)

DockerStop ==
    \E e \in Endpoints, i \in 1..(MaxCalls + 2), error \in BOOLEAN :
        StopServerCallback(e, i, error)

\* the same callbacks when every 'docker stop' and 'docker rm' succeeds
DockerStopSucceeds ==
    \E e \in Endpoints, i \in 1..(MaxCalls + 2) : StopServerCallback(e, i, FALSE)

\* responses of the agency
Agency ==
    \/ \E x \in Experiments, resp \in StartResponses : StartExperimentResponse(x, resp)
    \/ \E x \in Experiments, i \in 1..(MaxCalls + 1), found \in BOOLEAN :
          GetBatchIdResponse(x, i, found)
    \/ \E x \in Experiments, i \in 1..(MaxCalls + 1),
          resp \in AgencyStates \cup {"parse", "error"} :
          \E history \in IF resp = "failed" THEN Histories ELSE {<<>>} :
              FetchResponse(x, i, resp, history)
    \/ \E x \in Experiments, i \in 1..(MaxCalls + 1),
          resp \in AgencyStates \cup {"parse", "error"} : CancelResponse(x, i, resp)

\* calls on the experiment, its timer and the start of its endpoint
Lifecycle ==
    \/ \E x \in Experiments, e \in Endpoints : SetSSHServer(x, e)
    \/ \E x \in Experiments : StartExperiment(x)
    \/ \E x \in Experiments : FetchCurrentStatus(x)
    \/ \E x \in Experiments : CancelExperiment(x)
    \/ \E x \in Experiments : TimeoutFires(x)
    \/ DockerStart

\* the experiment lifecycle: the endpoints are stopped by the experiment only
NextExperiment ==
    \/ Lifecycle
    \/ Agency
    \/ DockerStop

SpecExperiment == InitExperiment /\ [][NextExperiment]_vars

\* the experiment lifecycle when 'docker stop' and 'docker rm' succeed
NextExperimentStops ==
    \/ Lifecycle
    \/ Agency
    \/ DockerStopSucceeds

SpecExperimentStops == InitExperiment /\ [][NextExperimentStops]_vars

\* the event loop runs every pending callback: exec callbacks, responses
\* of the agency and the timeout timer; callers may stop calling
SpecExperimentFair ==
    /\ InitExperiment
    /\ [][NextExperimentStops]_vars
    /\ WF_vars(DockerStart)
    /\ WF_vars(DockerStopSucceeds)
    /\ WF_vars(Agency)
    /\ WF_vars(\E x \in Experiments : TimeoutFires(x))

\* startExperiment() of experiment x has resolved
Submitted(x) == startx[x].pc = "done"

\* the usage of test-default.js: the caller polls and cancels in the
\* continuation of startExperiment, once the submission succeeded
LifecycleSubmitted ==
    \/ \E x \in Experiments, e \in Endpoints : SetSSHServer(x, e)
    \/ \E x \in Experiments : StartExperiment(x)
    \/ \E x \in Experiments : Submitted(x) /\ FetchCurrentStatus(x)
    \/ \E x \in Experiments : Submitted(x) /\ CancelExperiment(x)
    \/ \E x \in Experiments : TimeoutFires(x)
    \/ DockerStart

NextSubmitted ==
    \/ LifecycleSubmitted
    \/ Agency
    \/ DockerStopSucceeds

SpecSubmitted == InitExperiment /\ [][NextSubmitted]_vars

\* the submission alone: endpoints reserve ports, experiments attach one and
\* start, with every outcome of 'docker run' and of the request
NextLaunch ==
    \/ Acquire
    \/ \E x \in Experiments, e \in Endpoints : SetSSHServer(x, e)
    \/ \E x \in Experiments : StartExperiment(x)
    \/ \E x \in Experiments, resp \in StartResponses : StartExperimentResponse(x, resp)
    \/ DockerStart
    \/ DockerStop

SpecLaunch == InitExperiment /\ [][NextLaunch]_vars

\* an experiment without an SSH endpoint: the submission, then polls, cancels
\* and the timeout timer
NextWatchdog ==
    \/ \E x \in Experiments : StartExperiment(x)
    \/ \E x \in Experiments : Submitted(x) /\ FetchCurrentStatus(x)
    \/ \E x \in Experiments : Submitted(x) /\ CancelExperiment(x)
    \/ \E x \in Experiments : TimeoutFires(x)
    \/ Agency

SpecWatchdog == InitExperiment /\ [][NextWatchdog]_vars

\* the same, where the event loop runs every pending callback
SpecWatchdogFair ==
    /\ SpecWatchdog
    /\ WF_vars(Agency)
    /\ WF_vars(\E x \in Experiments : TimeoutFires(x))

(* ------------------------- properties: the pool ------------------------ *)

\* an endpoint holds a lease from the resumption of reservePort that assigned
\* its port until freePort returned it (which also overwrites reservePort)
Live(e) == reservedPort[e] # Undef /\ reservePortFn[e]

Count(p, ports) == Cardinality({i \in 1..Len(ports) : ports[i] = p})

\* the ascending sequence first, first + 1, ..., last
Ascending(first, last) == [i \in 1..(last - first + 1) |-> first + i - 1]

\* the runner of fetchAndWaitForPort ran for endpoint e in this step
RunnerRan(e) == acq'[e] # acq[e] /\ acq'[e].pc # "idle"

\* C1: no port is leased to two live endpoints at the same time, under any
\* interleaving of setPortRange, reservePort and stopServer.
C1_NoDoubleLease ==
    \A e, f \in Endpoints :
        (e # f /\ Live(e) /\ Live(f)) => reservedPort[e] # reservedPort[f]

\* C2: the port of an endpoint occurs at most once in availablePorts, however
\* many stopServer calls were made on the endpoint.
C2_ReturnedAtMostOnce ==
    \A e \in Endpoints :
        reservedPort[e] # Undef => Count(reservedPort[e], availablePorts) <= 1

\* C7: a step of a stopServer call appends the endpoint's port to the pool
\* exactly when it completes the call, which it does exactly when both
\* 'docker stop' and 'docker rm' succeeded; the call fails exactly when a
\* command fails with its retries used up, the pool is then left alone, and
\* 'docker rm' is only ever issued after 'docker stop' succeeded.
C7_StopStep(e, i) ==
    LET s == stops[e][i]
        t == stops'[e][i] IN
    s # t =>
        /\ t.pc = "done" <=> t.ok = {"stop", "rm"}
        /\ t.pc = "failed" <=> (t.ok = s.ok /\ s.retries = MaxStopRetries)
        /\ t.cmd = "rm" => "stop" \in t.ok
        /\ IF reservedPort[e] # Undef /\ t.pc = "done"
           THEN availablePorts' = Append(availablePorts, reservedPort[e])
           ELSE availablePorts' = availablePorts

\* C7: every step of every stopServer call satisfies C7_StopStep: the port is
\* returned if and only if 'docker stop' and then 'docker rm' succeeded.
C7_ReleaseIffStopAndRmSucceed ==
    [][\A e \in Endpoints : \A i \in 1..Len(stops[e]) : C7_StopStep(e, i)]_vars

C7_Witness ==
    \E e, f \in Endpoints : \E i \in 1..Len(stops[e]) : \E j \in 1..Len(stops[f]) :
        /\ reservedPort[e] # Undef /\ reservedPort[f] # Undef
        /\ stops[e][i].pc = "done" /\ Count(reservedPort[e], availablePorts) = 1
        /\ stops[f][j].pc = "failed" /\ stops[f][j].cmd = "rm"
        /\ Count(reservedPort[f], availablePorts) = 0

\* C8: setPortRange(a, b) with a <= b leaves exactly a, a + 1, ..., b in the
\* pool, in ascending order; as long as nothing is released the pool is the
\* rest k..b of that range, each acquisition made while it is non-empty
\* succeeds with a port that leaves the pool, and every acquisition made
\* once the b - a + 1 ports are gone fails to get one.
C8_Configured ==
    \A a, b \in Ports :
        (a <= b /\ SetPortRange(a, b)) => availablePorts' = Ascending(a, b)

C8_RestOfRange ==
    LET a == portRange[1]
        b == portRange[2] IN
    (a # Undef /\ a <= b) =>
        \E k \in a..(b + 1) : availablePorts = Ascending(k, b)

C8_Acquisition ==
    \A e \in Endpoints :
        RunnerRan(e) =>
            IF availablePorts # <<>>
            THEN /\ acq'[e].pc = "resolved"
                 /\ Count(acq'[e].port, availablePorts) = 1
                 /\ Count(acq'[e].port, availablePorts') = 0
                 /\ Len(availablePorts') = Len(availablePorts) - 1
            ELSE /\ acq'[e].pc \in {"waiting", "rejected"}
                 /\ acq'[e].port = Undef
                 /\ availablePorts' = availablePorts

C9_EmptyRangeIsNoOp ==
    [][\A a, b \in Ports :
          (a > b /\ SetPortRange(a, b)) =>
              /\ availablePorts' = availablePorts
              /\ reservedPort' = reservedPort]_vars

C9_Witness ==
    /\ portRange[1] > portRange[2]
    /\ availablePorts # <<>>
    /\ \E e \in Endpoints : reservedPort[e] # Undef

StopsBy(x, by) ==
    {j \in 1..Len(stops[sshServer[x]]) : stops[sshServer[x]][j].by \in by}

\* the fetchCurrentStatus calls of x that returned a status in results
Fetched(x, results) ==
    {i \in 1..Len(calls[x]) :
        /\ calls[x][i].op = "fetch"
        /\ calls[x][i].pc = "done"
        /\ calls[x][i].result \in results}

Cancels(x, by) ==
    {i \in 1..Len(calls[x]) : calls[x][i].op = "cancel" /\ calls[x][i].by = by}

\* C3: once fetchCurrentStatus has observed succeeded (and never failed),
\* fetchCurrentStatus has called stopServer on the attached endpoint exactly
\* once, however many calls observed succeeded.
C3_StopOnceOnSucceeded ==
    \A x \in Experiments :
        (/\ HasServer(x)
         /\ Fetched(x, {"succeeded"}) # {}
         /\ Fetched(x, {"failed"}) = {})
            => Cardinality(StopsBy(x, {"fetch"})) = 1

\* C4: when each teardown path is taken at most once (one cancelExperiment by
\* the timer, one explicit cancelExperiment, one fetchCurrentStatus that
\* observes succeeded or failed), stopServer is called at most once on the
\* attached endpoint by these paths.
C4_StopOnceAcrossPaths ==
    \A x \in Experiments :
        (/\ HasServer(x)
         /\ Cardinality(Cancels(x, "timer")) <= 1
         /\ Cardinality(Cancels(x, "user")) <= 1
         /\ Cardinality(Fetched(x, {"succeeded", "failed"})) <= 1)
            => Cardinality(StopsBy(x, {"fetch", "cancel"})) <= 1

\* C5: when startExperiment has failed on a response without experimentId
\* and an endpoint is attached (so it was started), startExperiment has
\* called stopServer on it.
C5_StopOnMissingId ==
    \A x \in Experiments :
        (HasServer(x) /\ startx[x].pc = "failed" /\ startx[x].err = "noId")
            => StopsBy(x, {"start"}) # {}

\* C6: once an experiment whose endpoint was started has ended (its
\* submission failed, or a terminal status was observed), the port of the
\* endpoint is eventually back in the pool.
Ended(x) ==
    /\ HasServer(x)
    /\ start[sshServer[x]].pc = "done"
    /\ startx[x].pc = "failed" \/ currentStatus[x] \in Terminal

Released(x) ==
    HasServer(x) /\ Count(reservedPort[sshServer[x]], availablePorts) >= 1

\* C6: every ended experiment with a started endpoint leads to its port
\* being back in availablePorts.
C6_PortEventuallyReturned ==
    \A x \in Experiments : Ended(x) ~> Released(x)

(* --------------------- properties: acquisition, docker ---------------- *)

\* the waits an acquisition of endpoint e has made so far
Waits(e) == IF acq[e].pc = "waiting" THEN acq[e].retries ELSE 0

\* the number of waits after which the waited time exceeds the maximum
LastWait == (ReservePortMaxTime \div ReservePortTimeout) + 1

\* C11 (polling): a check of the empty pool made after w waits fails exactly
\* when w waits are the first to exceed reservePortMaxTime, and otherwise
\* schedules wait w + 1.
C11_Poll ==
    \A e \in Endpoints :
        (RunnerRan(e) /\ availablePorts = <<>>) =>
            IF Waits(e) = LastWait
            THEN acq'[e].pc = "rejected"
            ELSE /\ Waits(e) < LastWait
                 /\ acq'[e].pc = "waiting"
                 /\ acq'[e].retries = Waits(e) + 1

C12_NoDuplicateAcquisition ==
    \A e, f \in Endpoints :
        /\ (acq[e].pc = "resolved" /\ Live(f)) =>
               acq[e].port # reservedPort[f]
        /\ (e # f /\ acq[e].pc = "resolved" /\ acq[f].pc = "resolved") =>
               acq[e].port # acq[f].port

\* C13 (one exec callback of the i-th stopServer call of endpoint e): the
\* callback of invocation k = retries + 1 of a command, with k at most
\* MaxStopRetries + 1, issues invocation k + 1 when the command failed and
\* k <= MaxStopRetries, rejects when it failed and k = MaxStopRetries + 1, and
\* on success resolves, so that the same command is not invoked again.
C13_ExecStep(e, i) ==
    LET s == stops[e][i]
        t == stops'[e][i] IN
    s # t =>
        /\ s.pc = "exec" /\ s.retries <= MaxStopRetries
        /\ IF t.ok = s.ok
           THEN /\ t.cmd = s.cmd /\ t.retries = s.retries + 1
                /\ t.pc = IF s.retries < MaxStopRetries THEN "exec" ELSE "failed"
           ELSE /\ t.ok = s.ok \cup {s.cmd}
                /\ t.pc # "failed"
                /\ t.pc = "done" \/ (t.cmd # s.cmd /\ t.retries = 0)

\* C13: runDockerCommand invokes a command that always fails maxRetries + 1
\* times and then rejects; an invocation that succeeds resolves and is the
\* last one of that command.
C13_RetriesThenRejects ==
    /\ [][\A e \in Endpoints : \A i \in 1..Len(stops[e]) : C13_ExecStep(e, i)]_vars
    /\ [](\A e \in Endpoints : \A i \in 1..Len(stops[e]) :
            stops[e][i].pc = "failed" => stops[e][i].retries = MaxStopRetries + 1)

C13_Witness ==
    \E e, f \in Endpoints : \E i \in 1..Len(stops[e]) : \E j \in 1..Len(stops[f]) :
        /\ stops[e][i].pc = "done" /\ stops[e][i].retries = MaxStopRetries
        /\ stops[f][j].pc = "failed" /\ stops[f][j].retries = MaxStopRetries + 1

\* C14 (one call): a startServer call made while the endpoint has no leased
\* port fails without issuing 'docker run' and leaves every containerId alone.
C14_StartCall ==
    \A e \in Endpoints :
        (start'[e] # start[e] /\ start[e].pc # "exec" /\ reservedPort[e] = Undef) =>
            /\ start'[e].pc = "failed" /\ start'[e].retries = 0
            /\ containerId' = containerId

\* C14: startServer without a leased port fails, runs no external command and
\* records no container identifier: 'docker run' is only ever pending with the
\* leased port, and only an endpoint with a leased port has a containerId.
C14_NoStartWithoutPort ==
    /\ [][C14_StartCall]_vars
    /\ [](\A e \in Endpoints :
            /\ start[e].pc = "exec" =>
                   (reservedPort[e] # Undef /\ start[e].port # Undef)
            /\ containerId[e] # Undef => reservedPort[e] # Undef)

C14_Witness ==
    \E e, f \in Endpoints :
        /\ start[e].pc = "failed" /\ start[e].retries = 0
        /\ reservedPort[e] = Undef /\ containerId[e] = Undef
        /\ start[f].pc = "done" /\ containerId[f] # Undef

(* --------------------- properties: start and watchdog ------------------ *)

\* startExperiment() of x failed because startServer() failed
ServerFailed(x) == startx[x] = [pc |-> "failed", err |-> "server"]

\* C15: with an endpoint attached, the submission request of startExperiment
\* is only sent once startServer has succeeded; when startServer fails,
\* startExperiment fails, no request is sent, no experimentId is recorded
\* and the watchdog is not armed.
C15_SubmitAfterStart ==
    \A x \in Experiments :
        HasServer(x) =>
            LET e == sshServer[x] IN
            /\ startx[x].pc = "server" => (start[e].pc = "exec" /\ start[e].caller = x)
            /\ (startx[x].pc \notin {"idle", "server"} /\ ~ServerFailed(x)) =>
                   /\ start[e].pc = "done" /\ start[e].caller = x
                   /\ containerId[e] # Undef
            /\ (start[e].caller = x /\ start[e].pc = "failed") => ServerFailed(x)
            /\ ServerFailed(x) =>
                   /\ start[e].pc = "failed"
                   /\ experimentId[x] = UndefStr
                   /\ timeoutFunction[x] = UndefStr

C15_Witness ==
    \E x \in Experiments :
        /\ HasServer(x) /\ ServerFailed(x) /\ timeout[x] > 0
        /\ start[sshServer[x]].retries = MaxStartRetries + 1

\* startExperiment() of x failed on the "error" event of its request
TransportFailed(x) == startx[x] = [pc |-> "failed", err |-> "transport"]

\* C16: when the submission request fails at the transport level,
\* startExperiment fails without recording an experimentId or arming the
\* watchdog, and it has called stopServer, once, on the attached endpoint.
C16_StopOnTransportError ==
    \A x \in Experiments :
        TransportFailed(x) =>
            /\ experimentId[x] = UndefStr
            /\ timeoutFunction[x] = UndefStr
            /\ HasServer(x) => Cardinality(StopsBy(x, {"start"})) = 1

C16_Witness ==
    \E x \in Experiments :
        /\ HasServer(x) /\ TransportFailed(x)
        /\ \E j \in StopsBy(x, {"start"}) : stops[sshServer[x]][j].pc = "done"

PastResolution(x) ==
    {i \in 1..Len(calls'[x]) :
        /\ calls'[x][i].op = "cancel" /\ calls'[x][i].by = "user"
        /\ calls'[x][i].pc = "request"
        /\ i > Len(calls[x]) \/ calls[x][i].pc = "batch"}

\* the explicit cancelExperiment calls of x that are still resolving the
\* batch, or have returned false
Unresolved(x) ==
    {i \in Cancels(x, "user") :
        \/ calls[x][i].pc = "batch"
        \/ calls[x][i].pc = "done" /\ calls[x][i].result = "false"}

C18_DisarmedOnTerminal ==
    \A x \in Experiments :
        Fetched(x, Terminal) # {} => timeoutFunction[x] # "armed"

\* C19 (state): the watchdog exists exactly for a submitted experiment with a
\* positive timeout, and the timer has called cancelExperiment once when it
\* has fired and never otherwise; with timeout 0 it never calls it.
C19_Watchdog ==
    \A x \in Experiments :
        /\ Submitted(x) => (timeoutFunction[x] # UndefStr <=> timeout[x] > 0)
        /\ ~Submitted(x) => timeoutFunction[x] = UndefStr
        /\ Cardinality(Cancels(x, "timer")) =
               IF timeoutFunction[x] = "fired" THEN 1 ELSE 0
        /\ timeout[x] = 0 => Cancels(x, "timer") = {}

\* C19 (the step that resolves startExperiment): the watchdog is armed when
\* the timeout is positive and left undefined otherwise.
C19_Arm ==
    \A x \in Experiments :
        (~Submitted(x) /\ Submitted(x)') =>
            timeoutFunction'[x] = IF timeout[x] > 0 THEN "armed" ELSE UndefStr

\* C19: a successful startExperiment arms the watchdog if and only if the
\* timeout is positive; an armed watchdog is eventually disarmed or fires, and
\* then calls cancelExperiment exactly once; with timeout 0 there is never an
\* automatic cancellation.
C19_ArmedIffPositive ==
    /\ []C19_Watchdog
    /\ [][C19_Arm]_vars
    /\ \A x \in Experiments :
          (timeoutFunction[x] = "armed") ~> (timeoutFunction[x] \in {"fired", "cleared"})

C19_Witness ==
    \E x \in Experiments :
        /\ timeout[x] > 0 /\ timeoutFunction[x] = "fired"
        /\ Cancels(x, "user") = {}
        /\ Cardinality(Cancels(x, "timer")) = 1

\* C20 (one step of the i-th call of x): a fetchCurrentStatus call that
\* leaves the batch resolution without sending the status query has resolved
\* with this.currentStatus, and the step changed neither currentStatus,
\* debugInfo, the watchdog nor the stopServer calls.
C20_GiveUpStep(x, i) ==
    (/\ calls[x][i].op = "fetch"
     /\ calls[x][i].pc = "batch"
     /\ calls'[x][i].pc \notin {"batch", "request"}) =>
        /\ calls'[x][i].pc = "done"
        /\ calls'[x][i].result = currentStatus[x]
        /\ UNCHANGED <<currentStatus, debugInfo, timeoutFunction, batchId, stops>>

\* C20: when the batch identifier is unknown and cannot be resolved,
\* fetchCurrentStatus does not fail: it returns the status known so far,
\* leaves currentStatus, debugInfo and the watchdog as they are, sends no
\* status query and does not stop the endpoint.
C20_FetchGivesUpQuietly ==
    [][\A x \in Experiments : \A i \in 1..Len(calls[x]) : C20_GiveUpStep(x, i)]_vars

C20_Witness ==
    \E x \in Experiments : \E i \in 1..Len(calls[x]) :
        /\ HasServer(x) /\ StopsBy(x, {"start", "fetch", "cancel"}) = {}
        /\ timeoutFunction[x] = "armed"
        /\ calls[x][i].op = "fetch" /\ calls[x][i].pc = "done"
        /\ calls[x][i].result = "unknown"

(* ------------------ properties: cancel, status, batch ------------------ *)

\* C21 (one step of call i of x, a cancelExperiment): a call that leaves the
\* batch resolution without sending the DELETE has returned false; a call that
\* sends the DELETE has disarmed the watchdog; and on the response resp the
\* call returns true exactly when resp is cancelled, returns false on every
\* other state, and rejects when the response cannot be read.
C21_CancelStep(x, i) ==
    LET made == i > Len(calls[x])
        c == calls'[x][i] IN
    c.op = "cancel" =>
        /\ (~made /\ calls[x][i].pc = "batch" /\ c.pc \notin {"batch", "request"}) =>
               (c.pc = "done" /\ c.result = "false")
        /\ (c.pc = "request" /\ (made \/ calls[x][i].pc = "batch")) =>
               timeoutFunction'[x] # "armed"
        /\ \A resp \in AgencyStates \cup {"parse", "error"} :
               CancelResponse(x, i, resp) =>
                   IF resp \in AgencyStates
                   THEN /\ c.pc = "done"
                        /\ c.result \in {"true", "false"}
                        /\ c.result = "true" <=> resp = "cancelled"
                   ELSE c.pc = "failed"

\* C21: cancelExperiment returns false without a cancellation request when
\* the batch identifier is unknown and cannot be resolved; otherwise it
\* disarms the watchdog, sends the request and returns true exactly when the
\* response state is cancelled.
C21_CancelResult ==
    [][\A x \in Experiments : \A i \in 1..Len(calls'[x]) : C21_CancelStep(x, i)]_vars

C21_Witness ==
    \E x \in Experiments : \E i, j \in Cancels(x, "user") :
        /\ calls[x][i].pc = "done" /\ calls[x][i].result = "true"
        /\ calls[x][j].pc = "done" /\ calls[x][j].result = "false"
        /\ timeoutFunction[x] = "cleared"

\* C22: once currentStatus is terminal (succeeded, failed or cancelled), no
\* step of the experiment changes it to another value.
C22_TerminalIsFinal ==
    [][\A x \in Experiments :
          currentStatus[x] \in Terminal => currentStatus'[x] = currentStatus[x]]_vars

\* C23: stopServer is only called on the attached endpoint once the
\* submission is over: fetchCurrentStatus and cancelExperiment only call it
\* after startExperiment resolved (so after startServer succeeded), and no
\* stopServer call exists while startExperiment is not yet called or pending.
C23_NoStopBeforeSubmission ==
    \A x \in Experiments :
        HasServer(x) =>
            /\ StopsBy(x, {"fetch", "cancel"}) # {} =>
                   (Submitted(x) /\ start[sshServer[x]].pc = "done")
            /\ startx[x].pc \in {"idle", "server", "request"} =>
                   stops[sshServer[x]] = <<>>

C23_Witness ==
    \E x \in Experiments : \E i, j \in 1..Len(calls[x]) :
        /\ HasServer(x) /\ startx[x].pc = "server"
        /\ stops[sshServer[x]] = <<>>
        /\ calls[x][i].op = "fetch" /\ calls[x][i].pc = "done"
        /\ calls[x][j].op = "cancel" /\ calls[x][j].pc = "done"

\* C24: when a stopServer call made by fetchCurrentStatus or by
\* cancelExperiment has failed (a docker command failed with its retries used
\* up), a call of that operation has failed too: the failure reached a caller.
C24_TeardownFailureSurfaced ==
    \A x \in Experiments : \A op \in {"fetch", "cancel"} :
        (/\ HasServer(x)
         /\ \E j \in StopsBy(x, {op}) : stops[sshServer[x]][j].pc = "failed")
            => \E i \in 1..Len(calls[x]) :
                  calls[x][i].op = op /\ calls[x][i].pc = "failed"

\* the debugInfo of the last entry of history whose state is failed, the
\* history being in chronological order; info when there is none
RECURSIVE LastFailed(_, _)
LastFailed(history, info) ==
    IF history = <<>> THEN info
    ELSE IF history[Len(history)].state = "failed"
    THEN history[Len(history)].debugInfo
    ELSE LastFailed(SubSeq(history, 1, Len(history) - 1), info)

\* C25: a fetchCurrentStatus response with state failed sets debugInfo to the
\* debugInfo of the most recent failed entry of its history; a response with
\* any other state leaves debugInfo as it is.
C25_MostRecentFailedEntry ==
    [][\A x \in Experiments : \A i \in 1..Len(calls[x]) :
          \A resp \in AgencyStates : \A history \in Histories :
              FetchResponse(x, i, resp, history) =>
                  debugInfo'[x] = IF resp = "failed"
                                  THEN LastFailed(history, debugInfo[x])
                                  ELSE debugInfo[x]]_vars

\* C26 (one step): a batchId that is set stays as it is; a call made while
\* it is set sends no batch list query, a call made while it is unset sends
\* one; batchId is only set by a call whose resolution succeeds, and a call
\* whose resolution fails leaves it as it is.
C26_Step(x) ==
    /\ batchId[x] # UndefStr => batchId'[x] = batchId[x]
    /\ \A i \in 1..Len(calls'[x]) :
          i > Len(calls[x]) =>
              calls'[x][i].pc = IF batchId[x] # UndefStr THEN "request" ELSE "batch"
    /\ batchId'[x] # batchId[x] =>
          \E i \in 1..Len(calls[x]) :
              calls[x][i].pc = "batch" /\ calls'[x][i].pc = "request"
    /\ \A i \in 1..Len(calls[x]) :
          (calls[x][i].pc = "batch" /\ calls'[x][i].pc = "done") =>
              batchId'[x] = batchId[x]

\* C26: the batch identifier is resolved lazily and cached: after a
\* successful resolution no later call queries the batch list and the
\* identifier does not change; a failed resolution leaves it unset.
C26_BatchIdCached ==
    [][\A x \in Experiments : C26_Step(x)]_vars

C26_Witness ==
    \E x \in Experiments :
        /\ batchId[x] # UndefStr /\ Len(calls[x]) = 2
        /\ calls[x][1].pc = "done" /\ calls[x][1].result \in AgencyStates
        /\ calls[x][2].pc = "request"

(* ------------------ properties: leases of the endpoints ---------------- *)

\* a startServer call is made on endpoint e in this step
StartCalled(e) == start'[e] # start[e] /\ start[e].pc # "exec"

\* C27 (one step): the step in which a stopServer call of endpoint e succeeds
\* leaves e without a recorded port, and a startServer call made on e while
\* the port it records is back in the pool fails the precondition.
C27_Step(e) ==
    /\ (\E i \in 1..Len(stops[e]) :
           stops[e][i].pc = "exec" /\ stops'[e][i].pc = "done") =>
               reservedPort'[e] = Undef
    /\ (StartCalled(e) /\ Count(reservedPort[e], availablePorts) > 0) =>
           start'[e].pc = "failed"

\* C27: after a successful stopServer the endpoint does not hold its port any
\* more, and startServer without a new reservePort fails.
C27_NoPortAfterStop ==
    [][\A e \in Endpoints : C27_Step(e)]_vars

\* C28: with the pool configured once, every port of the range is in the
\* pool, recorded as the port of an endpoint, or on its way from the pool to
\* the endpoint whose reservePort call has just obtained it.
C28_NoLeaseForgotten ==
    \A p \in Ports :
        \/ Count(p, availablePorts) > 0
        \/ \E e \in Endpoints : reservedPort[e] = p
        \/ \E e \in Endpoints : acq[e].pc = "resolved" /\ acq[e].port = p

\* C29 (one poll): a poll of a waiting acquisition that finds a port in the
\* pool, at any poll up to and including the last one, returns the head of
\* the pool and takes it out of the pool instead of failing.
C29_Poll(e) ==
    (acq[e].pc = "waiting" /\ RunnerRan(e) /\ availablePorts # <<>>) =>
        /\ acq'[e].pc = "resolved"
        /\ acq'[e].port = Head(availablePorts)
        /\ availablePorts' = Tail(availablePorts)

\* C29: an acquisition waiting on the empty pool obtains a port that is
\* released during its wait and not taken by another acquisition first.
C29_WaiterGetsReleasedPort ==
    [][\A e \in Endpoints : C29_Poll(e)]_vars

\* a waiting acquisition at its last poll, with a port released by another
\* endpoint at the head of the pool
C29_Witness ==
    \E e, f \in Endpoints :
        /\ e # f /\ acq[e].pc = "waiting" /\ acq[e].retries = LastWait
        /\ ~reservePortFn[f]
        /\ availablePorts # <<>> /\ Head(availablePorts) = reservedPort[f]

\* C30 (one step of call i of x, a cancelExperiment, with an endpoint
\* attached): the step in which the call returns on a parsed response calls
\* stopServer once, whatever it returns; the step in which the call rejects,
\* and the step in which it gives up the batch resolution, call no stopServer.
C30_CancelStep(x, i) ==
    LET c == calls[x][i]
        d == calls'[x][i]
        e == sshServer[x] IN
    (HasServer(x) /\ c.op = "cancel" /\ d # c) =>
        /\ (c.pc = "request" /\ d.pc = "done") =>
               stops' = [stops EXCEPT ![e] = StopServerCall(e, "cancel")]
        /\ (c.pc = "request" /\ d.pc = "failed") => stops' = stops
        /\ c.pc = "batch" => stops' = stops

\* C30: cancelExperiment stops the attached endpoint whenever its request gets
\* a response that can be parsed, also when it then returns false, and does
\* not stop it when the batch resolution or the request fails.
C30_StopOnParsedResponse ==
    [][\A x \in Experiments : \A i \in 1..Len(calls[x]) : C30_CancelStep(x, i)]_vars

C30_Witness ==
    \E x \in Experiments : \E i \in 1..Len(calls[x]) :
        /\ HasServer(x)
        /\ Cancels(x, "user") = {i} /\ Cancels(x, "timer") = {}
        /\ calls[x][i].pc = "done" /\ calls[x][i].result = "false"
        /\ Cardinality(StopsBy(x, {"cancel"})) = 1

(* ---------------- properties: frame of start and cancel ---------------- *)

\* C31: a startExperiment that fails, for whatever reason, has recorded no
\* experimentId and armed no watchdog, and the step in which it fails leaves
\* currentStatus as it was.
C31_FailedStartLeavesState ==
    /\ [](\A x \in Experiments :
            startx[x].pc = "failed" =>
                (experimentId[x] = UndefStr /\ timeoutFunction[x] = UndefStr))
    /\ [][\A x \in Experiments :
            (startx[x].pc # "failed" /\ startx'[x].pc = "failed") =>
                currentStatus'[x] = currentStatus[x]]_vars

C31_Witness ==
    \E x \in Experiments :
        /\ startx[x] = [pc |-> "failed", err |-> "noId"]
        /\ timeout[x] > 0 /\ HasServer(x)

\* C32 (one step): currentStatus only changes in the step in which a
\* fetchCurrentStatus call returns the status of a parsed response, and it
\* changes to that status.
C32_Step(x) ==
    currentStatus'[x] # currentStatus[x] =>
        \E i \in 1..Len(calls[x]) :
            /\ calls[x][i].op = "fetch" /\ calls[x][i].pc = "request"
            /\ calls'[x][i].pc = "done"
            /\ calls'[x][i].result = currentStatus'[x]
            /\ currentStatus'[x] \in AgencyStates

\* C32: currentStatus is unknown until a fetchCurrentStatus call has returned
\* the status of a response, and no startExperiment, cancelExperiment or
\* timer step changes it.
C32_OnlyFetchChangesStatus ==
    /\ [](\A x \in Experiments :
            Fetched(x, AgencyStates) = {} => currentStatus[x] = "unknown")
    /\ [][\A x \in Experiments : C32_Step(x)]_vars

\* a cancelExperiment has returned true and the timer has fired, and no
\* fetchCurrentStatus was made: currentStatus is still unknown
C32_Witness ==
    \E x \in Experiments : \E i \in Cancels(x, "user") :
        /\ calls[x][i].pc = "done" /\ calls[x][i].result = "true"
        /\ Cancels(x, "timer") # {}
        /\ currentStatus[x] = "unknown"

====
